---- MODULE Spec2Model ----
(***************************************************************************)
(* A model of ExternalStore (src/src/store.ts): one cached key kept in a   *)
(* Storage backend, an in-memory shadow (memoryCache), the synchronous     *)
(* snapshot (currentValue), the subscriber set, and the asynchronous       *)
(* operations loadInitialValue / getAsyncSnapshot and setState, which are  *)
(* split at their await points.  Every await is a suspension point at      *)
(* which the continuation of any other pending operation may run.          *)
(*                                                                         *)
(* Specifications over the same actions:                                   *)
(*   Spec      the initial load and MaxCalls invocations of setState       *)
(*             racing, for every combination of stages; no subscriber,     *)
(*             the clock stands still                                      *)
(*   SpecTime  the initial load, one invocation of setState and the        *)
(*             readers of getSnapshot, for every combination of stages,    *)
(*             ttl and staleWhileRevalidate, with the clock running and    *)
(*             two listeners                                               *)
(*   SpecLoad  the initial load alone, over every configuration and every  *)
(*             kind of backend content                                     *)
(*   SpecEvents, SpecHandlers, SpecSweep: storage events and the quota     *)
(*             sweep; SpecHook, SpecMount: the hook useClientCache         *)
(*             (src/src/use-client-cache.ts); each is described where it   *)
(*             is defined                                                  *)
(***************************************************************************)
EXTENDS Integers, Sequences, FiniteSets, TLC

(***************************************************************************)
(* Bounds of the model.                                                    *)
(***************************************************************************)
MaxTime == 3        \* Date.now() ranges over StartTime..MaxTime
MaxCalls == 2       \* number of setState invocations in one behaviour
TTL == 1            \* the non-zero ttl a store may be configured with
SWR == 1            \* the non-zero staleWhileRevalidate window
InitExpiry == 2     \* expiry of an entry left behind by an earlier session

StartTime == 1

(***************************************************************************)
(* Values.  T is an opaque type; "big" is a value whose serialized entry   *)
(* exceeds maxSize, "v0" is the value an earlier session left behind.      *)
(***************************************************************************)
initialValue == "init"
Values == {"a", "b", "c", "big"}
StoredValue == "v0"
UndefinedValue == "undefined"

Listeners == {"l1", "l2"}

Keys == {"key", "other"}
key == "key"

VERSION == "1.0.0"

NoKey == "none"
Secret == "k1"
WrongSecret == "k2"

Null == -1          \* expiry: null
Undefined == -2     \* a field that the parsed object does not have

None == << >>
Some(x) == << x >>
Get(o) == o[1]

(***************************************************************************)
(* StoredData<T>                                                           *)
(***************************************************************************)
StoredData(v, exp, ts, h) ==
    [value |-> v, expiry |-> exp, version |-> VERSION, timestamp |-> ts, hash |-> h]

\* what JSON.parse yields for an encryption envelope {iv, data}: an object
\* without any of the fields of StoredData
EnvelopeObject ==
    [value |-> UndefinedValue, expiry |-> Undefined, version |-> "undefined",
     timestamp |-> Undefined, hash |-> ""]

(***************************************************************************)
(* calculateHash: btoa of the bytes of JSON.stringify(data), an injective  *)
(* text digest of the value.  JSON.stringify(undefined) is undefined, whose*)
(* encoding is taken as the empty digest.                                  *)
(***************************************************************************)
calculateHash(v) ==
    CASE v = "a" -> "Ig=a"
      [] v = "b" -> "Ig=b"
      [] v = "c" -> "Ig=c"
      [] v = "big" -> "Ig=big"
      [] v = "v0" -> "Ig=v0"
      [] v = "init" -> "Ig=init"
      [] v = "x" -> "Ig=x"
      [] v = "o" -> "Ig=o"
      [] OTHER -> ""

(***************************************************************************)
(* Payloads: the text kept in the backend.  kind "entry" is the JSON text  *)
(* of entry e, possibly gzip+base64 encoded (gz) and then wrapped in an    *)
(* AES-GCM envelope made with secret aes; kind "garbage" is any other text.*)
(***************************************************************************)
serialize(data) == [kind |-> "entry", gz |-> FALSE, aes |-> NoKey, e |-> data]

Garbage == [kind |-> "garbage", gz |-> FALSE, aes |-> NoKey, e |-> EnvelopeObject]

\* new Blob([data]).size of the serialized entry
BlobSize(p) ==
    2 + (CASE p.e.value = "big" -> 3 [] p.e.value = "b" -> 2 [] OTHER -> 1)

maxSize == 4

\* a size check against a larger limit
validateDataSizeLax(p) == BlobSize(p) <= maxSize + 2

validateDataSize(p) == BlobSize(p) <= maxSize

(***************************************************************************)
(* The codec stages.  Each returns [out, err]: the text handed to the next *)
(* stage and the errors it reported through onError.  ok is the outcome of *)
(* the platform primitive (CompressionStream, crypto.subtle).              *)
(***************************************************************************)
compressData(opt, p, ok) ==
    IF ~opt.compression THEN [out |-> p, err |-> << >>]
    ELSE IF ok THEN [out |-> [p EXCEPT !.gz = TRUE], err |-> << >>]
    ELSE [out |-> p, err |-> <<"Compression failed">>]

\* an envelope sealed with a secret the reader does not use
encryptDataOtherSecret(opt, p, ok) ==
    IF opt.encryptionKey = NoKey THEN [out |-> p, err |-> << >>]
    ELSE IF ok THEN [out |-> [p EXCEPT !.aes = WrongSecret], err |-> << >>]
    ELSE [out |-> p, err |-> <<"Encryption failed">>]

encryptData(opt, p, ok) ==
    IF opt.encryptionKey = NoKey THEN [out |-> p, err |-> << >>]
    ELSE IF ok THEN [out |-> [p EXCEPT !.aes = opt.encryptionKey], err |-> << >>]
    ELSE [out |-> p, err |-> <<"Encryption failed">>]

decryptData(opt, p, ok) ==
    IF opt.encryptionKey = NoKey THEN [out |-> p, err |-> << >>]
    ELSE IF ok /\ p.kind = "entry" /\ p.aes = opt.encryptionKey
         THEN [out |-> [p EXCEPT !.aes = NoKey], err |-> << >>]
    ELSE [out |-> p, err |-> <<"Decryption failed">>]

\* a decompression that drops the payload it cannot inflate
decompressDataDiscarding(opt, p, ok) ==
    IF ~opt.compression THEN [out |-> p, err |-> << >>]
    ELSE IF ok /\ p.kind = "entry" /\ p.aes = NoKey /\ p.gz
         THEN [out |-> [p EXCEPT !.gz = FALSE], err |-> << >>]
    ELSE [out |-> Garbage, err |-> <<"Decompression failed">>]

decompressData(opt, p, ok) ==
    IF ~opt.compression THEN [out |-> p, err |-> << >>]
    ELSE IF ok /\ p.kind = "entry" /\ p.aes = NoKey /\ p.gz
         THEN [out |-> [p EXCEPT !.gz = FALSE], err |-> << >>]
    ELSE [out |-> p, err |-> <<"Decompression failed">>]

\* JSON.parse succeeds on the JSON text of an entry and on the JSON text of
\* an envelope; it throws on base64 text and on garbage
CanDeserialize(p) == p.kind = "entry" /\ (p.aes # NoKey \/ ~p.gz)

deserialize(p) == IF p.aes # NoKey THEN EnvelopeObject ELSE p.e

(***************************************************************************)
(* State                                                                   *)
(***************************************************************************)
VARIABLES
    options,        \* this.options (immutable after construction)
    storage,        \* the backend: key -> None | Some(payload)
    memoryCache,    \* None | Some(StoredData)
    currentValue,   \* what getSnapshot() returns
    listeners,      \* the subscriber set
    now,            \* Date.now()
    load,           \* the pending loadInitialValue / getAsyncSnapshot
    calls,          \* the setState invocations, by order of invocation
    ev,             \* what the last step did (observation only)
    storageEventHandler,    \* None | Some(handler registered on the window)
    cleanupEventHandler,    \* None | Some(handler registered on the window)
    hook            \* useClientCache: rendered state, store refs, setter calls

vars == <<options, storage, memoryCache, currentValue, listeners, now, load, calls, ev,
          storageEventHandler, cleanupEventHandler, hook>>

\* the two window listeners of the store (lines 34 and 36)
handlers == <<storageEventHandler, cleanupEventHandler>>

NoNotify == [l \in Listeners |-> 0]

Event(op, id, ret, notified, errs, io) ==
    [op |-> op, id |-> id, ret |-> ret, notified |-> notified, errs |-> errs, io |-> io]

\* the listeners whose callback throws
Throwing == {"l2"}

\* a round that a throwing listener cuts short
notifySubscribersUncaught(ls) ==
    [l \in Listeners |-> IF l \in ls /\ (ls \cap Throwing = {} \/ l \in Throwing)
                         THEN 1 ELSE 0]

\* notifySubscribers: every listener of the set is called once; each throw
\* is caught and reported
notifySubscribers(ls) == [l \in Listeners |-> IF l \in ls THEN 1 ELSE 0]

\* exceptions of listeners swallowed without a report
ListenerErrorsSwallowed(ls) == << >>

ListenerErrors(ls) ==
    [i \in 1..Cardinality(ls \cap Throwing) |-> "Listener notification failed"]

(***************************************************************************)
(* Configurations (StoreOptions & DefaultOptions).                         *)
(***************************************************************************)
StageConfigs ==
    [ttl : {0}, staleWhileRevalidate : {0}, compression : BOOLEAN,
     encryptionKey : {NoKey, Secret}, validateOnLoad : {TRUE},
     initialValue : {initialValue}]

AllConfigs ==
    [ttl : {0, TTL}, staleWhileRevalidate : {0, SWR}, compression : BOOLEAN,
     encryptionKey : {NoKey, Secret}, validateOnLoad : BOOLEAN,
     initialValue : {initialValue}]

TimedConfigs ==
    [ttl : {0, TTL}, staleWhileRevalidate : {0, SWR}, compression : BOOLEAN,
     encryptionKey : {NoKey, Secret}, validateOnLoad : {TRUE},
     initialValue : {initialValue}]

(***************************************************************************)
(* The write pipeline of setState when no stage fails: serialize, then     *)
(* compress, then encrypt.                                                 *)
(***************************************************************************)
Encode(opt, data) ==
    encryptData(opt, compressData(opt, serialize(data), TRUE).out, TRUE).out

(***************************************************************************)
(* The read pipeline of getAsyncSnapshot when no platform primitive fails: *)
(* decrypt, then decompress, then deserialize; None when deserialize       *)
(* throws.                                                                 *)
(***************************************************************************)
Decode(opt, p) ==
    LET d == decompressData(opt, decryptData(opt, p, TRUE).out, TRUE).out
    IN IF CanDeserialize(d) THEN Some(deserialize(d)) ELSE None

(***************************************************************************)
(* What a store may find in the backend at construction: nothing, text     *)
(* that is no entry, or an entry written by an earlier session - by a      *)
(* store of the same configuration, or with a stage missing (another       *)
(* configuration, or a stage that failed at the time), or with another     *)
(* secret, or with a value altered after its hash was computed.            *)
(***************************************************************************)
EarlierEntry(exp) == StoredData(StoredValue, exp, 0, calculateHash(StoredValue))

AlteredEntry == StoredData(StoredValue, Null, 0, "Ig=xx")

WrittenItems == [opt \in AllConfigs |->
    {None} \cup { Some(Encode(opt, EarlierEntry(exp))) : exp \in {Null, StartTime} }]

TimedItems == [opt \in AllConfigs |->
    {None} \cup { Some(Encode(opt, EarlierEntry(exp))) : exp \in {Null, InitExpiry} }]

AnyItems == [opt \in AllConfigs |->
    {None, Some(Garbage), Some(Encode(opt, AlteredEntry))} \cup
    { Some([kind |-> "entry", gz |-> g, aes |-> k, e |-> EarlierEntry(exp)]) :
        g \in {FALSE, opt.compression},
        k \in {NoKey, opt.encryptionKey} \cup
              (IF opt.encryptionKey # NoKey THEN {WrongSecret} ELSE {}),
        exp \in {Null, InitExpiry} }]

IdleCall ==
    [pc |-> "idle", value |-> "", data |-> EnvelopeObject, payload |-> Garbage,
     ok |-> FALSE, nerr |-> 0, duringLoad |-> FALSE, during |-> {}]

CallIds == DOMAIN calls

InFlight == { i \in CallIds : calls[i].pc \in {"compress", "encrypt"} }

\* the value the id-th invocation of setState is given (or "big")
CallValue(id) == CASE id = 1 -> "a" [] id = 2 -> "b" [] OTHER -> "c"

getSnapshot == currentValue

\* a server snapshot that follows the store
getServerSnapshotOfStore == currentValue

getServerSnapshot == options.initialValue

Quiet == Event("quiet", 0, "", NoNotify, << >>, << >>)

(***************************************************************************)
(* useClientCache.  Each component that calls the hook holds its own       *)
(* storeRef; the store of this model is the one component c1 created on    *)
(* its first render.  A store reference records which instance it is and   *)
(* the backend and key it was created for.                                 *)
(***************************************************************************)
Consumers == {"c1", "c2"}

ExternalStoreRef(n, area, k) == [id |-> n, storage |-> area, key |-> k]

\* a setState invocation that did not come through the hook's setter
NoSetterCall == [action |-> "", seen |-> "", rendered |-> "", succ |-> FALSE]

\* a constructor that reads the backend for its first value
InitialCurrentValueFromStorage(item) ==
    IF item = None THEN initialValue ELSE StoredValue

\* constructor, line 52: the value getSnapshot() returns in a new store,
\* whatever item the backend holds
InitialCurrentValue(item) == initialValue

(***************************************************************************)
(* constructor: sets currentValue and calls loadInitialValue, which runs   *)
(* getAsyncSnapshot up to its first suspension: the memoryCache test (the  *)
(* cache is empty in a new store), storage.getItem, and either the call of *)
(* decryptData or the return of initialValue.                              *)
(* cfgs, Items, getItemOks, n: the configurations, backend contents and    *)
(* backend faults a specification draws from, and its number of setState   *)
(* invocations.                                                            *)
(***************************************************************************)
constructor(cfgs, Items, getItemOks, n) ==
    /\ options \in cfgs
    /\ \E item \in Items[options] :
          storage = [k \in Keys |-> IF k = key THEN item ELSE None]
    /\ memoryCache = None
    /\ storageEventHandler = None
    /\ cleanupEventHandler = None
    /\ currentValue = InitialCurrentValue(storage[key])
    /\ listeners = {}
    /\ now = StartTime
    /\ calls = [i \in 1..n |-> IdleCall]
    /\ hook = [state |-> currentValue,
               storeRef |-> [c \in Consumers |->
                               IF c = "c1"
                               THEN Some(ExternalStoreRef(1, "storage", key))
                               ELSE None],
               setter |-> [i \in 1..n |-> NoSetterCall]]
    /\ \E getItemOk \in getItemOks :
          IF ~getItemOk
          THEN /\ load = [pc |-> "return", data |-> Garbage, ret |-> initialValue,
                          nerr |-> 1, outcome |-> "error", read |-> None,
                          getItemFailed |-> TRUE,
                          decryptFailed |-> FALSE]
               /\ ev = Event("constructor", 0, "", NoNotify,
                             <<"Failed to get async snapshot">>, <<"getItem">>)
          ELSE IF storage[key] = None
          THEN /\ load = [pc |-> "return", data |-> Garbage, ret |-> initialValue,
                          nerr |-> 0, outcome |-> "miss", read |-> None,
                          getItemFailed |-> FALSE,
                          decryptFailed |-> FALSE]
               /\ ev = Event("constructor", 0, "", NoNotify, << >>, <<"getItem">>)
          ELSE /\ load = [pc |-> "decrypt", data |-> Get(storage[key]), ret |-> "",
                          nerr |-> 0, outcome |-> "pending", read |-> storage[key],
                          getItemFailed |-> FALSE,
                          decryptFailed |-> FALSE]
               /\ ev = Event("constructor", 0, "", NoNotify, << >>, <<"getItem">>)

Init == constructor(StageConfigs, WrittenItems, {TRUE}, MaxCalls)

InitLoad == constructor(AllConfigs, AnyItems, BOOLEAN, 0)

InitTime == constructor(TimedConfigs, TimedItems, {TRUE}, 1)

(***************************************************************************)
(* getAsyncSnapshot, resumed after `await this.decryptData(storedValue)`:  *)
(* calls decompressData and suspends again.                                *)
(***************************************************************************)
LoadAfterDecrypt ==
    /\ load.pc = "decrypt"
    /\ \E ok \in BOOLEAN :
          LET r == decryptData(options, load.data, ok) IN
          /\ load' = [load EXCEPT !.pc = "decompress", !.data = r.out,
                                  !.nerr = @ + Len(r.err),
                                  !.decryptFailed = (r.err # << >>)]
          /\ ev' = Event("load:decrypted", 0, "", NoNotify, r.err, << >>)
    /\ UNCHANGED <<options, handlers, hook, storage, memoryCache, currentValue, listeners, now, calls>>

(***************************************************************************)
(* The freshness policy of getAsyncSnapshot (lines 144-155).               *)
(***************************************************************************)
\* expiry compared with <= : an entry is still fresh at its expiry instant
FreshnessInclusive(parsed, t, opt) ==
    IF parsed.expiry = Null \/ (parsed.expiry >= 0 /\ t <= parsed.expiry)
    THEN "fresh"
    ELSE IF opt.staleWhileRevalidate # 0 /\ parsed.expiry >= 0
            /\ t < parsed.expiry + opt.staleWhileRevalidate
    THEN "stale"
    ELSE "expired"

\* a policy without the stale window
FreshnessWithoutStale(parsed, t, opt) ==
    IF parsed.expiry = Null \/ (parsed.expiry >= 0 /\ t < parsed.expiry)
    THEN "fresh"
    ELSE "expired"

\* a policy that takes "no expiry" for "expired"
FreshnessNullExpired(parsed, t, opt) ==
    IF parsed.expiry >= 0 /\ t < parsed.expiry
    THEN "fresh"
    ELSE IF opt.staleWhileRevalidate # 0 /\ parsed.expiry >= 0
            /\ t < parsed.expiry + opt.staleWhileRevalidate
    THEN "stale"
    ELSE "expired"

Freshness(parsed, t, opt) ==
    IF parsed.expiry = Null \/ (parsed.expiry >= 0 /\ t < parsed.expiry)
    THEN "fresh"
    ELSE IF opt.staleWhileRevalidate # 0 /\ parsed.expiry >= 0
            /\ t < parsed.expiry + opt.staleWhileRevalidate
    THEN "stale"
    ELSE "expired"

\* a load that does not compare the hashes
IntegrityNotChecked(parsed, opt) == FALSE

\* a check that is made whatever validateOnLoad says
IntegrityAlwaysChecked(parsed, opt) ==
    /\ parsed.hash # ""
    /\ calculateHash(parsed.value) # parsed.hash

IntegrityFails(parsed, opt) ==
    /\ opt.validateOnLoad
    /\ parsed.hash # ""
    /\ calculateHash(parsed.value) # parsed.hash

\* the report of the catch of getAsyncSnapshot for the throw of line 134
IntegrityError == "Failed to get async snapshot: Data integrity check failed"

(***************************************************************************)
(* getAsyncSnapshot, resumed after `await this.decompressData(...)`:       *)
(* deserialize, integrity check, freshness policy, return (or catch).      *)
(* The returned value reaches loadInitialValue one suspension later.       *)
(***************************************************************************)
LoadAfterDecompress ==
    /\ load.pc = "decompress"
    /\ \E ok \in BOOLEAN :
          LET r == decompressData(options, load.data, ok)
              p == r.out
              parsed == deserialize(p)
              thrown == ~CanDeserialize(p) \/ IntegrityFails(parsed, options)
              f == Freshness(parsed, now, options)
          IN
          IF thrown
          THEN /\ load' = [load EXCEPT !.pc = "return", !.data = Garbage,
                                       !.ret = initialValue,
                                       !.nerr = @ + Len(r.err) + 1,
                                       !.outcome = "error"]
               /\ ev' = Event("load:resolved", 0, initialValue, NoNotify,
                              r.err \o <<IF CanDeserialize(p)
                                          THEN IntegrityError
                                          ELSE "Failed to get async snapshot">>,
                              << >>)
               /\ UNCHANGED <<storage, memoryCache>>
          ELSE IF f = "fresh"
          THEN /\ memoryCache' = Some(parsed)
               /\ load' = [load EXCEPT !.pc = "return", !.data = Garbage,
                                       !.ret = parsed.value,
                                       !.nerr = @ + Len(r.err),
                                       !.outcome = "fresh"]
               /\ ev' = Event("load:resolved", 0, parsed.value, NoNotify, r.err, << >>)
               /\ UNCHANGED storage
          ELSE IF f = "stale"
          THEN /\ load' = [load EXCEPT !.pc = "return", !.data = Garbage,
                                       !.ret = parsed.value,
                                       !.nerr = @ + Len(r.err),
                                       !.outcome = "stale"]
               /\ ev' = Event("load:resolved", 0, parsed.value, NoNotify, r.err, << >>)
               /\ UNCHANGED <<storage, memoryCache>>
          ELSE /\ storage' = [storage EXCEPT ![key] = None]
               /\ memoryCache' = None
               /\ load' = [load EXCEPT !.pc = "return", !.data = Garbage,
                                       !.ret = initialValue,
                                       !.nerr = @ + Len(r.err),
                                       !.outcome = "expired"]
               /\ ev' = Event("load:resolved", 0, initialValue, NoNotify, r.err,
                              <<"removeItem">>)
    /\ UNCHANGED <<options, handlers, hook, currentValue, listeners, now, calls>>

(***************************************************************************)
(* loadInitialValue, resumed after `await this.getAsyncSnapshot()`.        *)
(***************************************************************************)
\* a load that persists the default value when it found nothing
LoadInitialValueResumeSeeding ==
    /\ load.pc = "return"
    /\ ev' = Event("load:done", 0, load.ret, notifySubscribers(listeners),
                   ListenerErrors(listeners), <<"setItem">>)
    /\ currentValue' = load.ret
    /\ load' = [load EXCEPT !.pc = "done"]
    /\ storage' = IF load.outcome = "miss"
                  THEN [storage EXCEPT ![key] = Some(Encode(options,
                            StoredData(initialValue, Null, now,
                                       calculateHash(initialValue))))]
                  ELSE storage
    /\ UNCHANGED <<options, handlers, hook, memoryCache, listeners, now, calls>>

\* a load that assigns the value and does not call the subscribers
LoadInitialValueResumeSilent ==
    /\ load.pc = "return"
    /\ ev' = Event("load:done", 0, load.ret, NoNotify, << >>, << >>)
    /\ currentValue' = load.ret
    /\ load' = [load EXCEPT !.pc = "done"]
    /\ UNCHANGED <<options, handlers, hook, storage, memoryCache, listeners, now, calls>>

LoadInitialValueResume ==
    /\ load.pc = "return"
    /\ ev' = Event("load:done", 0, load.ret, notifySubscribers(listeners),
                   ListenerErrors(listeners), << >>)
    /\ currentValue' = load.ret
    /\ load' = [load EXCEPT !.pc = "done"]
    /\ UNCHANGED <<options, handlers, hook, storage, memoryCache, listeners, now, calls>>

(***************************************************************************)
(* getAsyncSnapshot of a store of configuration opt constructed later, at  *)
(* time t, on a backend that holds payload p: the errors it reports and    *)
(* the value it resolves to.  decryptOk, decompressOk: the outcomes of the *)
(* platform primitives.                                                    *)
(***************************************************************************)
getAsyncSnapshot(opt, p, t, decryptOk, decompressOk) ==
    LET d == decryptData(opt, p, decryptOk)
        r == decompressData(opt, d.out, decompressOk)
        parsed == deserialize(r.out)
    IN IF ~CanDeserialize(r.out)
       THEN [ret |-> initialValue,
             errs |-> d.err \o r.err \o <<"Failed to get async snapshot">>]
       ELSE IF IntegrityFails(parsed, opt)
       THEN [ret |-> initialValue, errs |-> d.err \o r.err \o <<IntegrityError>>]
       ELSE IF Freshness(parsed, t, opt) \in {"fresh", "stale"}
       THEN [ret |-> parsed.value, errs |-> d.err \o r.err]
       ELSE [ret |-> initialValue, errs |-> d.err \o r.err]

(***************************************************************************)
(* setState(value), from its invocation to its first suspension: builds    *)
(* the entry, serializes it, checks its size, calls compressData.          *)
(* Date.now() is read twice, for expiry and then for timestamp; t2 is the  *)
(* second reading.                                                         *)
(***************************************************************************)
setState(v, t2, serializeOk) ==
    /\ \E id \in CallIds :
        /\ calls[id].pc = "idle"
        /\ \A j \in CallIds : j < id => calls[j].pc # "idle"
        /\ t2 <= MaxTime
        /\ now' = t2
        /\ LET data == StoredData(v,
                           IF options.ttl # 0 THEN now + options.ttl ELSE Null,
                           t2, calculateHash(v))
               serialized == serialize(data)
               c == [IdleCall EXCEPT !.value = v,
                                     !.duringLoad = (load.pc \in {"decrypt", "decompress"}),
                                     !.during = InFlight]
           IN
           IF ~serializeOk \/ ~validateDataSize(serialized)
           THEN /\ calls' = [calls EXCEPT ![id] = [c EXCEPT !.pc = "done"]]
                /\ ev' = Event("setState:rejected", id, "", NoNotify,
                               <<"Failed to set state">>, << >>)
           ELSE /\ calls' = [calls EXCEPT ![id] =
                               [c EXCEPT !.pc = "compress", !.data = data,
                                         !.payload = serialized]]
                /\ ev' = Event("setState:invoked", id, "", NoNotify, << >>, << >>)
    /\ UNCHANGED <<options, handlers, storage, memoryCache, currentValue, listeners, load>>

(***************************************************************************)
(* store.setState(v) called directly, with the value of the next           *)
(* invocation (or "big").                                                  *)
(***************************************************************************)
NextId == CHOOSE id \in CallIds \cup {0} :
              \/ id = 0 /\ \A j \in CallIds : calls[j].pc # "idle"
              \/ /\ id # 0
                 /\ calls[id].pc = "idle"
                 /\ \A j \in CallIds : j < id => calls[j].pc # "idle"

CallSetState(v, t2, serializeOk) ==
    /\ v \in {CallValue(NextId), "big"}
    /\ setState(v, t2, serializeOk)
    /\ UNCHANGED hook

(***************************************************************************)
(* The setter the hook returns (use-client-cache.ts, lines 72-83): an      *)
(* updater is applied to store.getSnapshot(), then store.setState is       *)
(* called, which runs to its first suspension.                             *)
(***************************************************************************)
Updaters == {"increment"}

\* what the setter is called with: an updater, or a value (a large one)
SetterActions == Updaters \cup {"big"}

\* (prev) => prev + 1, on the values of the model read as a counter
Apply(f, prev) ==
    CASE prev = "a" -> "b"
      [] prev \in {"b", "c"} -> "c"
      [] OTHER -> "a"

\* an updater applied to the state of the last render
NewValueOfRender(action) ==
    IF action \in Updaters THEN Apply(action, hook.state) ELSE action

NewValue(action) ==
    IF action \in Updaters THEN Apply(action, getSnapshot) ELSE action

useClientCacheSetState(action, t2, serializeOk) ==
    /\ NextId # 0
    /\ setState(NewValue(action), t2, serializeOk)
    /\ hook' = [hook EXCEPT !.setter[NextId] =
                   [action |-> action, seen |-> getSnapshot, rendered |-> hook.state,
                    succ |-> /\ ev.op \in {"setState:invoked", "setState:rejected"}
                             /\ ev.id = NextId - 1]]

(***************************************************************************)
(* A render of component c1: useSyncExternalStore returns getSnapshot().   *)
(***************************************************************************)
Render ==
    /\ hook.state # getSnapshot
    /\ hook' = [hook EXCEPT !.state = getSnapshot]
    /\ ev' = Event("render", 0, getSnapshot, NoNotify, << >>, << >>)
    /\ UNCHANGED <<options, handlers, storage, memoryCache, currentValue, listeners, now,
                   load, calls>>

(***************************************************************************)
(* The first render of another component that calls useClientCache with    *)
(* backend area and key k: its storeRef is empty, so it constructs a store *)
(* (lines 38-62).                                                          *)
(***************************************************************************)
Mount(c, area, k) ==
    /\ hook.storeRef[c] = None
    /\ LET n == Cardinality({d \in Consumers : hook.storeRef[d] # None}) IN
       /\ hook' = [hook EXCEPT !.storeRef[c] = Some(ExternalStoreRef(n + 1, area, k))]
       /\ ev' = Event("mount", n + 1, c, NoNotify, << >>, << >>)
    /\ UNCHANGED <<options, handlers, storage, memoryCache, currentValue, listeners, now,
                   load, calls>>

(***************************************************************************)
(* setState, resumed after `await this.compressData(serialized)`: calls    *)
(* encryptData and suspends again.                                         *)
(***************************************************************************)
SetStateAfterCompress(id) ==
    /\ calls[id].pc = "compress"
    /\ \E ok \in BOOLEAN :
          LET r == compressData(options, calls[id].payload, ok) IN
          /\ calls' = [calls EXCEPT ![id].pc = "encrypt", ![id].payload = r.out,
                                    ![id].nerr = @ + Len(r.err)]
          /\ ev' = Event("setState:compressed", id, "", NoNotify, r.err, << >>)
    /\ UNCHANGED <<options, handlers, hook, storage, memoryCache, currentValue, listeners, now, load>>

(***************************************************************************)
(* The end of setState.  Commit: lines 192-194 when setItem returns.       *)
(* Aborted: setItem throws, so lines 193-194 are not run and the catch     *)
(* only reports.  st, mem, cur: the state before; p: the payload; data:    *)
(* the entry; v: the value.                                                *)
(***************************************************************************)
\* a write that forgets the memory shadow
CommitWithoutShadow(st, mem, cur, p, data, v) ==
    [storage |-> [st EXCEPT ![key] = Some(p)], memoryCache |-> mem,
     currentValue |-> v]

\* the shadow assigned before setItem, which then throws
AbortedAfterShadow(st, mem, cur, p, data, v) ==
    [storage |-> st, memoryCache |-> Some(data), currentValue |-> cur]

Commit(st, mem, cur, p, data, v) ==
    [storage |-> [st EXCEPT ![key] = Some(p)], memoryCache |-> Some(data),
     currentValue |-> v]

Aborted(st, mem, cur, p, data, v) ==
    [storage |-> st, memoryCache |-> mem, currentValue |-> cur]

(***************************************************************************)
(* setState, resumed after `await this.encryptData(compressed)`: the       *)
(* backend write, the memory shadow, the current value and the             *)
(* notification round, all in one synchronous run; a throwing setItem      *)
(* lands in the catch.                                                     *)
(***************************************************************************)
SetStateAfterEncrypt(id) ==
    /\ calls[id].pc = "encrypt"
    /\ \E ok \in BOOLEAN, setItemOk \in BOOLEAN :
          LET r == encryptData(options, calls[id].payload, ok)
              done == [calls[id] EXCEPT !.pc = "done", !.payload = Garbage,
                                        !.data = EnvelopeObject, !.nerr = 0]
              w == IF setItemOk
                   THEN Commit(storage, memoryCache, currentValue, r.out,
                               calls[id].data, calls[id].value)
                   ELSE Aborted(storage, memoryCache, currentValue, r.out,
                                calls[id].data, calls[id].value)
          IN
          /\ storage' = w.storage
          /\ memoryCache' = w.memoryCache
          /\ currentValue' = w.currentValue
          /\ IF setItemOk
             THEN /\ calls' = [calls EXCEPT ![id] = [done EXCEPT !.ok = TRUE]]
                  /\ ev' = Event("setState:done", id, "",
                                 notifySubscribers(listeners),
                                 r.err \o ListenerErrors(listeners), <<"setItem">>)
             ELSE /\ calls' = [calls EXCEPT ![id] = done]
                  /\ ev' = Event("setState:failed", id, "", NoNotify,
                                 r.err \o <<"Failed to set state">>, <<"setItem">>)
    /\ UNCHANGED <<options, handlers, hook, listeners, now, load>>

(***************************************************************************)
(* getSnapshot(): returns currentValue.                                    *)
(***************************************************************************)
GetSnapshot ==
    /\ ev' = Event("getSnapshot", 0, currentValue, NoNotify, << >>, << >>)
    /\ UNCHANGED <<options, handlers, hook, storage, memoryCache, currentValue, listeners, now,
                   load, calls>>

(***************************************************************************)
(* getServerSnapshot(): returns options.initialValue.                      *)
(***************************************************************************)
GetServerSnapshot ==
    /\ ev' = Event("getServerSnapshot", 0, getServerSnapshot, NoNotify, << >>, << >>)
    /\ UNCHANGED <<options, handlers, hook, storage, memoryCache, currentValue, listeners, now,
                   load, calls>>

(***************************************************************************)
(* subscribe(listener) and the function it returns.                        *)
(***************************************************************************)
subscribe(l) ==
    /\ listeners' = listeners \cup {l}
    /\ ev' = Event("subscribe", 0, l, NoNotify, << >>, << >>)
    /\ UNCHANGED <<options, handlers, hook, storage, memoryCache, currentValue, now, load, calls>>

\* an unsubscribe function that deletes nothing
unsubscribeNothing(l) ==
    /\ l \in listeners
    /\ listeners' = listeners
    /\ ev' = Event("unsubscribe", 0, l, NoNotify, << >>, << >>)
    /\ UNCHANGED <<options, handlers, hook, storage, memoryCache, currentValue, now, load, calls>>

unsubscribe(l) ==
    /\ l \in listeners
    /\ listeners' = listeners \ {l}
    /\ ev' = Event("unsubscribe", 0, l, NoNotify, << >>, << >>)
    /\ UNCHANGED <<options, handlers, hook, storage, memoryCache, currentValue, now, load, calls>>

(***************************************************************************)
(* The clock.                                                              *)
(***************************************************************************)
Tick ==
    /\ now < MaxTime
    /\ now' = now + 1
    /\ ev' = Quiet
    /\ UNCHANGED <<options, handlers, hook, storage, memoryCache, currentValue, listeners, load, calls>>

(***************************************************************************)
(* cleanup(): removes the window listeners that are registered, clears the *)
(* subscriber set and the memory shadow.                                   *)
(***************************************************************************)
\* a cleanup that keeps the memory shadow
cleanupKeepingShadow ==
    /\ storageEventHandler' = None
    /\ cleanupEventHandler' = None
    /\ listeners' = {}
    /\ ev' = Event("cleanup", 0, "", NoNotify, << >>, << >>)
    /\ UNCHANGED <<options, hook, memoryCache, storage, currentValue, now, load, calls>>

cleanup ==
    /\ storageEventHandler' = None
    /\ cleanupEventHandler' = None
    /\ listeners' = {}
    /\ memoryCache' = None
    /\ ev' = Event("cleanup", 0, "", NoNotify, << >>,
                   [i \in 1..Cardinality({h \in {storageEventHandler,
                                                  cleanupEventHandler} : h # None})
                      |-> "removeEventListener"])
    /\ UNCHANGED <<options, hook, storage, currentValue, now, load, calls>>

(***************************************************************************)
(* Change notifications.  Another store on the same backend (another tab)  *)
(* writes or removes an item; the browser then delivers a StorageEvent     *)
(* (storageArea, key) to this window, where it runs the handlers that were *)
(* registered with addEventListener("storage", ...).                       *)
(***************************************************************************)
Areas == {"storage", "otherStorage"}    \* "storage" is options.storage

ExternalValue == "x"
OtherValue == "o"

ExternalEntry(exp) == StoredData(ExternalValue, exp, 0, calculateHash(ExternalValue))

OtherEntry(exp) == StoredData(OtherValue, exp, 0, calculateHash(OtherValue))

\* what another store may leave under key k: under this store's key, an
\* entry with its configuration; under another key, a plain entry or text of
\* another application
ExternalItems(k) ==
    IF k = key
    THEN {None} \cup { Some(Encode(options, ExternalEntry(exp))) : exp \in {Null, InitExpiry} }
    ELSE {None, Some(Garbage)}
         \cup { Some(serialize(OtherEntry(exp))) : exp \in {Null, InitExpiry} }

ExternalWrite(k, item) ==
    /\ item \in ExternalItems(k)
    /\ storage[k] # item
    /\ storage' = [storage EXCEPT ![k] = item]
    /\ ev' = Quiet
    /\ UNCHANGED <<options, handlers, hook, memoryCache, currentValue, listeners, now,
                   load, calls>>

RECURSIVE SumSizes(_, _)
SumSizes(st, ks) ==
    IF ks = {} THEN 0
    ELSE LET k == CHOOSE x \in ks : TRUE
         IN (IF st[k] = None THEN 0 ELSE BlobSize(Get(st[k])))
            + SumSizes(st, ks \ {k})

calculateStorageSize(st) == SumSizes(st, Keys)

\* a handler that looks at the key and not at the storage area
handleStorageEventAnyArea(area, k, mem, ls) ==
    IF k = key
    THEN [memoryCache |-> None, notified |-> notifySubscribers(ls),
          errs |-> ListenerErrors(ls)]
    ELSE [memoryCache |-> mem, notified |-> NoNotify, errs |-> << >>]

\* handleStorageEvent: [memoryCache, notified] after the handler
handleStorageEvent(area, k, mem, ls) ==
    IF area = "storage" /\ k = key
    THEN [memoryCache |-> None, notified |-> notifySubscribers(ls),
          errs |-> ListenerErrors(ls)]
    ELSE [memoryCache |-> mem, notified |-> NoNotify, errs |-> << >>]

\* a sweep that takes an entry without expiry for an expired one
IsExpiredItemNullExpiry(item, t) ==
    /\ item # None
    /\ CanDeserialize(Get(item))
    /\ deserialize(Get(item)).expiry \in {Null} \cup {e \in 1..t : t > e}

\* cleanupExpiredItems, lines 434-439: the test made on the raw item
IsExpiredItem(item, t) ==
    /\ item # None
    /\ CanDeserialize(Get(item))
    /\ deserialize(Get(item)).expiry > 0
    /\ t > deserialize(Get(item)).expiry

\* cleanupExpiredItems: [storage, memoryCache, notified, errs, io]
cleanupExpiredItems(st, mem, ls, t, removeItemOk) ==
    LET keysToRemove == { k \in Keys : IsExpiredItem(st[k], t) }
        unreadable == { k \in Keys : st[k] # None /\ ~CanDeserialize(Get(st[k])) }
        n == Cardinality(keysToRemove)
    IN [storage |-> IF removeItemOk
                    THEN [k \in Keys |-> IF k \in keysToRemove THEN None ELSE st[k]]
                    ELSE st,
        memoryCache |-> IF key \in keysToRemove THEN None ELSE mem,
        notified |-> IF key \in keysToRemove THEN notifySubscribers(ls) ELSE NoNotify,
        errs |-> [i \in 1..Cardinality(unreadable) |-> "Failed to process item"]
                 \o (IF removeItemOk THEN << >>
                     ELSE [i \in 1..n |-> "Failed to remove item"])
                 \o (IF key \in keysToRemove THEN ListenerErrors(ls) ELSE << >>),
        io |-> [i \in 1..n |-> "removeItem"]]

\* handleCleanupEvent: the sweep is run when the storage area is the store's
\* and the backend holds more than maxSize
handleCleanupEvent(area, st, mem, ls, t, removeItemOk) ==
    IF area = "storage" /\ calculateStorageSize(st) > maxSize
    THEN cleanupExpiredItems(st, mem, ls, t, removeItemOk)
    ELSE [storage |-> st, memoryCache |-> mem, notified |-> NoNotify,
          errs |-> << >>, io |-> << >>]

\* the window runs the registered handlers, the own-key handler first
DispatchStorageEvent(area, k, removeItemOk) ==
    LET a == IF storageEventHandler # None
             THEN handleStorageEvent(area, k, memoryCache, listeners)
             ELSE [memoryCache |-> memoryCache, notified |-> NoNotify, errs |-> << >>]
        b == IF cleanupEventHandler # None
             THEN handleCleanupEvent(area, storage, a.memoryCache, listeners, now,
                                     removeItemOk)
             ELSE [storage |-> storage, memoryCache |-> a.memoryCache,
                   notified |-> NoNotify, errs |-> << >>, io |-> << >>]
    IN
    /\ storage' = b.storage
    /\ memoryCache' = b.memoryCache
    /\ ev' = Event(IF area = "storage" THEN "storage" ELSE "storage:otherArea", 0, k,
                   [l \in Listeners |-> a.notified[l] + b.notified[l]],
                   a.errs \o b.errs,
                   (IF storageEventHandler # None THEN <<"handleStorageEvent">> ELSE << >>)
                   \o (IF cleanupEventHandler # None THEN <<"handleCleanupEvent">> ELSE << >>)
                   \o b.io)
    /\ UNCHANGED <<options, handlers, hook, currentValue, listeners, now, load, calls>>

(***************************************************************************)
(* The handlers called directly, as a test harness calls them: the         *)
(* constructor registers neither (both fields stay null).                  *)
(***************************************************************************)
CallHandleStorageEvent(area, k) ==
    LET a == handleStorageEvent(area, k, memoryCache, listeners) IN
    /\ memoryCache' = a.memoryCache
    /\ ev' = Event(IF area = "storage" THEN "handleStorageEvent"
                   ELSE "handleStorageEvent:otherArea", 0, k, a.notified, a.errs, << >>)
    /\ UNCHANGED <<options, handlers, hook, storage, currentValue, listeners, now, load, calls>>

CallHandleCleanupEvent(area, removeItemOk) ==
    LET b == handleCleanupEvent(area, storage, memoryCache, listeners, now,
                                removeItemOk) IN
    /\ storage' = b.storage
    /\ memoryCache' = b.memoryCache
    /\ ev' = Event("handleCleanupEvent", 0, area, b.notified, b.errs, b.io)
    /\ UNCHANGED <<options, handlers, hook, currentValue, listeners, now, load, calls>>

(***************************************************************************)
(* Spec: the initial load and MaxCalls invocations of setState, racing.    *)
(***************************************************************************)
Next ==
    \/ LoadAfterDecrypt
    \/ LoadAfterDecompress
    \/ LoadInitialValueResume
    \/ \E v \in Values, serializeOk \in BOOLEAN : CallSetState(v, now, serializeOk)
    \/ \E id \in CallIds : SetStateAfterCompress(id)
    \/ \E id \in CallIds : SetStateAfterEncrypt(id)

Spec == Init /\ [][Next]_vars

(***************************************************************************)
(* SpecLoad: the initial load alone, over every configuration and every    *)
(* kind of backend content, at any time.                                   *)
(***************************************************************************)
NextLoad ==
    \/ LoadAfterDecrypt
    \/ LoadAfterDecompress
    \/ LoadInitialValueResume
    \/ GetSnapshot
    \/ \E l \in Listeners : subscribe(l)
    \/ \E l \in Listeners : unsubscribe(l)
    \/ Tick

SpecLoad == InitLoad /\ [][NextLoad]_vars

(***************************************************************************)
(* SpecTime: the initial load and one invocation of setState, with the     *)
(* clock running.                                                          *)
(***************************************************************************)
NextTime ==
    \/ LoadAfterDecrypt
    \/ LoadAfterDecompress
    \/ LoadInitialValueResume
    \/ \E v \in Values, t2 \in {now, now + 1}, serializeOk \in BOOLEAN :
          CallSetState(v, t2, serializeOk)
    \/ \E id \in CallIds : SetStateAfterCompress(id)
    \/ \E id \in CallIds : SetStateAfterEncrypt(id)
    \/ GetSnapshot
    \/ \E l \in Listeners : subscribe(l)
    \/ \E l \in Listeners : unsubscribe(l)
    \/ Tick

SpecTime == InitTime /\ [][NextTime]_vars

(***************************************************************************)
(* SpecEvents: the store with its subscribers, one setState, cleanup, and  *)
(* other stores writing to the backend and the window delivering the       *)
(* resulting storage events.                                               *)
(***************************************************************************)
InitEvents == constructor(StageConfigs, WrittenItems, {TRUE}, 1)

NextEvents ==
    \/ LoadAfterDecrypt
    \/ LoadAfterDecompress
    \/ LoadInitialValueResume
    \/ \E v \in Values, serializeOk \in BOOLEAN : CallSetState(v, now, serializeOk)
    \/ \E id \in CallIds : SetStateAfterCompress(id)
    \/ \E id \in CallIds : SetStateAfterEncrypt(id)
    \/ GetSnapshot
    \/ GetServerSnapshot
    \/ \E l \in Listeners : subscribe(l)
    \/ \E l \in Listeners : unsubscribe(l)
    \/ cleanup
    \/ \E item \in ExternalItems(key) : ExternalWrite(key, item)
    \/ \E area \in Areas, k \in Keys : DispatchStorageEvent(area, k, TRUE)

SpecEvents == InitEvents /\ [][NextEvents]_vars

(***************************************************************************)
(* SpecHandlers: the two event handlers called directly on every backend   *)
(* content, with the clock running.                                        *)
(***************************************************************************)
InitHandlers == constructor(StageConfigs, TimedItems, {TRUE}, 0)

NextHandlers ==
    \/ LoadAfterDecrypt
    \/ LoadAfterDecompress
    \/ LoadInitialValueResume
    \/ \E l \in Listeners : subscribe(l)
    \/ \E l \in Listeners : unsubscribe(l)
    \/ \E k \in Keys : \E item \in ExternalItems(k) : ExternalWrite(k, item)
    \/ \E area \in Areas, k \in Keys : CallHandleStorageEvent(area, k)
    \/ \E area \in Areas, removeItemOk \in BOOLEAN :
          CallHandleCleanupEvent(area, removeItemOk)
    \/ Tick

SpecHandlers == InitHandlers /\ [][NextHandlers]_vars

(***************************************************************************)
(* SpecSweep: the quota sweep on stores with and without a stale window    *)
(* (one that spans more than one tick of the clock), with the clock        *)
(* running.                                                                *)
(***************************************************************************)
SweepConfigs ==
    [ttl : {0}, staleWhileRevalidate : {0, SWR + 1}, compression : {FALSE},
     encryptionKey : {NoKey}, validateOnLoad : {TRUE},
     initialValue : {initialValue}]

SweepItems == [opt \in SweepConfigs |-> TimedItems[[opt EXCEPT !.staleWhileRevalidate = 0]]]

InitSweep == constructor(SweepConfigs, SweepItems, {TRUE}, 0)

NextSweep ==
    \/ LoadAfterDecrypt
    \/ LoadAfterDecompress
    \/ LoadInitialValueResume
    \/ \E l \in Listeners : subscribe(l)
    \/ \E k \in Keys : \E item \in ExternalItems(k) : ExternalWrite(k, item)
    \/ \E area \in Areas, removeItemOk \in BOOLEAN :
          CallHandleCleanupEvent(area, removeItemOk)
    \/ Tick

SpecSweep == InitSweep /\ [][NextSweep]_vars

(***************************************************************************)
(* SpecHash: the initial load and one setState on stores with and without  *)
(* validateOnLoad.                                                         *)
(***************************************************************************)
HashConfigs ==
    [ttl : {0}, staleWhileRevalidate : {0}, compression : BOOLEAN,
     encryptionKey : {NoKey}, validateOnLoad : BOOLEAN,
     initialValue : {initialValue}]

InitHash == constructor(HashConfigs, WrittenItems, {TRUE}, 1)

NextHash ==
    \/ LoadAfterDecrypt
    \/ LoadAfterDecompress
    \/ LoadInitialValueResume
    \/ \E v \in Values, serializeOk \in BOOLEAN : CallSetState(v, now, serializeOk)
    \/ \E id \in CallIds : SetStateAfterCompress(id)
    \/ \E id \in CallIds : SetStateAfterEncrypt(id)
    \/ GetSnapshot

SpecHash == InitHash /\ [][NextHash]_vars

(***************************************************************************)
(* SpecHook: the store driven through the hook of component c1 - the       *)
(* setter called with an updater or a value, and renders.                  *)
(***************************************************************************)
HookConfigs ==
    [ttl : {0}, staleWhileRevalidate : {0}, compression : BOOLEAN,
     encryptionKey : {NoKey}, validateOnLoad : {TRUE},
     initialValue : {initialValue}]

InitHook == constructor(HookConfigs, WrittenItems, {TRUE}, MaxCalls)

NextHook ==
    \/ LoadAfterDecrypt
    \/ LoadAfterDecompress
    \/ LoadInitialValueResume
    \/ \E action \in SetterActions : useClientCacheSetState(action, now, TRUE)
    \/ \E id \in CallIds : SetStateAfterCompress(id)
    \/ \E id \in CallIds : SetStateAfterEncrypt(id)
    \/ Render

SpecHook == InitHook /\ [][NextHook]_vars

(***************************************************************************)
(* SpecMount: other components mounting with useClientCache while the      *)
(* store of c1 loads and is subscribed to.                                 *)
(***************************************************************************)
InitMount == constructor(StageConfigs, WrittenItems, {TRUE}, 0)

NextMount ==
    \/ LoadAfterDecrypt
    \/ LoadAfterDecompress
    \/ LoadInitialValueResume
    \/ \E l \in Listeners : subscribe(l)
    \/ \E l \in Listeners : unsubscribe(l)
    \/ \E c \in Consumers, area \in Areas, k \in Keys : Mount(c, area, k)

SpecMount == InitMount /\ [][NextMount]_vars

TypeOK ==
    /\ options \in AllConfigs \cup SweepConfigs
    /\ currentValue \in Values \cup {initialValue, StoredValue, UndefinedValue}
    /\ listeners \subseteq Listeners
    /\ now \in StartTime..MaxTime
    /\ load.pc \in {"decrypt", "decompress", "return", "done"}
    /\ storageEventHandler \in {None, Some("handleStorageEvent")}
    /\ cleanupEventHandler \in {None, Some("handleCleanupEvent")}

(***************************************************************************)
(* Properties                                                              *)
(***************************************************************************)
BackendEntry == Get(storage[key]).e

\* C1: when a setState(v) call succeeds, at the moment it completes the
\* backend holds an encoding of an entry whose value is v, the memory shadow
\* is that same entry, getSnapshot() returns v, and every listener subscribed
\* at that moment has been invoked exactly once (the others not at all).
C1_SetStateSuccess ==
    (ev.op \in {"setState:done", "setState:failed"} /\ calls[ev.id].ok) =>
        /\ storage[key] # None
        /\ Get(storage[key]).kind = "entry"
        /\ BackendEntry.value = calls[ev.id].value
        /\ memoryCache = Some(BackendEntry)
        /\ getSnapshot = calls[ev.id].value
        /\ \A l \in Listeners : ev.notified[l] = IF l \in listeners THEN 1 ELSE 0

C1_Witness ==
    /\ ev.op = "setState:done"
    /\ calls[ev.id].ok
    /\ listeners = Listeners
    /\ options.compression
    /\ options.encryptionKey # NoKey
    /\ Get(storage[key]).gz
    /\ Get(storage[key]).aes = Secret

\* the serialized entry of value v is larger than maxSize
Oversize(v) == BlobSize(serialize(StoredData(v, Null, 0, calculateHash(v)))) > maxSize

Reported(errs, what) == \E i \in 1..Len(errs) : errs[i] = what

\* C2 (as amended): after the size check only a throwing backend write makes
\* setState fail; a throwing codec stage is reported and the call goes on.
\* The failing call is atomic: none of its steps changes the backend, the
\* memory shadow or getSnapshot(), none notifies a subscriber, and its last
\* step reports the failure; the one step of a call that changes anything is
\* the successful last one, which puts the same entry in the backend and in
\* the memory shadow.
C2_FailedWriteAtomic ==
    [][ \A id \in CallIds :
          /\ (calls'[id] # calls[id] /\ ~(calls'[id].pc = "done" /\ calls'[id].ok))
             => /\ storage' = storage
                /\ memoryCache' = memoryCache
                /\ currentValue' = currentValue
                /\ ev'.notified = NoNotify
                /\ (calls[id].pc = "encrypt" =>
                      /\ calls'[id].pc = "done"
                      /\ Reported(ev'.errs, "Failed to set state"))
          /\ (calls[id].pc # "done" /\ calls'[id].pc = "done" /\ calls'[id].ok)
             => /\ storage'[key] # None
                /\ Get(storage'[key]).e = calls[id].data
                /\ memoryCache' = Some(calls[id].data) ]_vars

C2_Witness ==
    /\ ev.op = "setState:failed"
    /\ listeners = Listeners
    /\ currentValue = StoredValue
    /\ memoryCache # None
    /\ storage[key] # None

\* C2 (as stated): a setState call in which a codec stage or the backend
\* write raises after the size check leaves the backend, the memory shadow
\* and getSnapshot() as they were, notifies nobody and reports an error.
C2_AsStated ==
    [][ \A id \in CallIds :
          (/\ calls[id].pc = "encrypt"
           /\ calls'[id].pc = "done"
           /\ \/ calls[id].nerr > 0
              \/ Reported(ev'.errs, "Encryption failed")
              \/ Reported(ev'.errs, "Failed to set state"))
          => /\ storage' = storage
             /\ memoryCache' = memoryCache
             /\ currentValue' = currentValue
             /\ ev'.notified = NoNotify
             /\ Len(ev'.errs) + calls[id].nerr >= 1 ]_vars

\* two invocations of setState of which the second began while the first
\* was suspended, both resolved, one of them just now
Overlapped(i, j) ==
    /\ i < j
    /\ i \in calls[j].during
    /\ calls[i].pc = "done"
    /\ calls[j].pc = "done"
    /\ ev.op \in {"setState:done", "setState:failed"}
    /\ ev.id \in {i, j}

OneOfTheTwo(i, j) ==
    /\ getSnapshot \in {calls[i].value, calls[j].value}
    /\ memoryCache # None
    /\ Get(memoryCache).value = getSnapshot
    /\ storage[key] # None
    /\ Get(storage[key]).kind = "entry"
    /\ BackendEntry.value = getSnapshot

C5_LoadSerialized ==
    (/\ load.pc = "done"
     /\ load.outcome = "fresh"
     /\ load.ret = StoredValue
     /\ (options.compression \/ options.encryptionKey # NoKey)
     /\ calls[1].pc = "done"
     /\ calls[1].ok
     /\ calls[1].duringLoad
     /\ \A j \in CallIds \ {1} : calls[j].pc = "idle")
    => /\ getSnapshot = calls[1].value
       /\ memoryCache # None
       /\ Get(memoryCache).value = calls[1].value
       /\ storage[key] # None
       /\ BackendEntry.value = calls[1].value

NothingCompleted == load.pc # "done" /\ \A id \in CallIds : calls[id].pc # "done"

\* C6: as long as neither the initial load nor any setState has completed,
\* getSnapshot() returns the default value; and a call of getSnapshot()
\* returns the current value without any backend access and changes neither
\* the backend, the memory shadow, the current value nor the subscriber set.
C6_DefaultBeforeLoad ==
    /\ [](NothingCompleted => getSnapshot = initialValue)
    /\ [][ ev'.op = "getSnapshot" =>
             /\ ev'.ret = currentValue
             /\ ev'.io = << >>
             /\ ev'.notified = NoNotify
             /\ UNCHANGED <<storage, memoryCache, currentValue, listeners>> ]_vars

C6_Witness ==
    /\ NothingCompleted
    /\ ev.op = "getSnapshot"
    /\ ev.ret = initialValue
    /\ load.pc = "return"
    /\ load.ret = StoredValue
    /\ memoryCache # None
    /\ calls[1].pc = "encrypt"

\* the load meets something that throws in getAsyncSnapshot itself: the
\* backend read, the parse of the text read, or the integrity check
LoadRaises ==
    \/ load.getItemFailed
    \/ /\ load.read # None
       /\ \/ Get(load.read) = Garbage
          \/ /\ options.validateOnLoad
             /\ Get(load.read).kind = "entry"
             /\ Get(load.read).e = AlteredEntry

LoadResolved == load.pc \in {"return", "done"}

ReadEntry == Get(load.read).e

\* the step of the load that applies the freshness policy to what it decoded
PolicyStep ==
    /\ load.pc = "decompress"
    /\ load'.pc = "return"
    /\ load'.outcome # "error"
    /\ Get(load.read).kind = "entry"
    /\ ReadEntry.expiry # Null

\* C8: when the load decodes a backend entry with a non-null expiry and
\* now >= expiry + staleWhileRevalidate, that step removes the backend entry
\* under the key (one removeItem), clears the memory shadow and resolves to
\* the default value, which the load then makes the current value.
C8_ExpiredEntryRemoved ==
    [][ /\ (PolicyStep /\ now >= ReadEntry.expiry + options.staleWhileRevalidate)
           => /\ storage'[key] = None
              /\ memoryCache' = None
              /\ load'.ret = initialValue
              /\ ev'.io = <<"removeItem">>
        /\ (load.pc = "return" /\ load.outcome = "expired" /\ load'.pc = "done")
           => currentValue' = initialValue ]_vars

C8_Witness ==
    /\ load.pc = "done"
    /\ load.outcome = "expired"
    /\ load.nerr = 0
    /\ load.read # None
    /\ ReadEntry.expiry = InitExpiry
    /\ now >= InitExpiry + options.staleWhileRevalidate
    /\ storage[key] = None
    /\ memoryCache = None
    /\ currentValue = initialValue

\* C9: when the load decodes a backend entry with expiry <= now <
\* expiry + staleWhileRevalidate, it resolves to the stored value, that step
\* touches neither the backend nor the memory shadow, the stored value
\* becomes the current value, and afterwards nothing but a completed
\* setState changes the backend, the shadow or the current value: there is
\* no background refresh.
C9_StaleServed ==
    [][ /\ (/\ PolicyStep
            /\ load.data.aes = NoKey
            /\ ReadEntry.expiry <= now
            /\ now < ReadEntry.expiry + options.staleWhileRevalidate)
           => /\ load'.ret = ReadEntry.value
              /\ storage' = storage
              /\ memoryCache' = memoryCache
              /\ ev'.io = << >>
        /\ (load.pc = "return" /\ load.outcome = "stale" /\ load'.pc = "done")
           => currentValue' = load.ret
        /\ (/\ load.pc = "done"
            /\ load.outcome = "stale"
            /\ \/ storage' # storage
               \/ memoryCache' # memoryCache
               \/ currentValue' # currentValue)
           => ev'.op = "setState:done" ]_vars

C9_Witness ==
    /\ load.pc = "done"
    /\ load.outcome = "stale"
    /\ ev.op = "getSnapshot"
    /\ ev.ret = StoredValue
    /\ now > ReadEntry.expiry
    /\ storage[key] = load.read
    /\ memoryCache = None
    /\ calls[1].pc = "idle"

\* C10: with ttl > 0 and staleWhileRevalidate = 0, after the load has
\* completed a successful setState(V) is still the current value and
\* getSnapshot() is called: once now >= the entry's expiry (invocation time
\* + ttl) it returns the default value and the backend entry is gone.
C10_ExpiresOnLiveStore ==
    (/\ ev.op = "getSnapshot"
     /\ options.ttl > 0
     /\ options.staleWhileRevalidate = 0
     /\ load.pc = "done"
     /\ calls[1].pc = "done"
     /\ calls[1].ok
     /\ ~calls[1].duringLoad
     /\ memoryCache # None
     /\ Get(memoryCache).value = calls[1].value
     /\ Get(memoryCache).expiry # Null
     /\ now >= Get(memoryCache).expiry)
    => /\ ev.ret = initialValue
       /\ storage[key] = None

\* C11: a load that finds no entry under the key resolves to the default
\* value, which becomes the current value, and none of its steps writes the
\* backend: the only backend access of the load is the getItem of the
\* constructor, and the backend (this key and every other) stays as it was.
C11_MissWritesNothing ==
    /\ [](load.outcome = "miss" =>
            /\ load.read = None
            /\ load.ret = initialValue
            /\ (ev.op = "constructor" => ev.io = <<"getItem">>))
    /\ [][ (load.outcome = "miss" /\ load' # load) =>
             /\ storage' = storage
             /\ memoryCache' = memoryCache
             /\ ev'.io = << >>
             /\ currentValue' = initialValue ]_vars

C11_Witness ==
    /\ load.outcome = "miss"
    /\ ev.op = "load:done"
    /\ ev.ret = initialValue
    /\ listeners = Listeners
    /\ \A k \in Keys : storage[k] = None

\* the step of the load that decodes an entry whose value no longer matches
\* its hash, no stage having failed
ReadsAltered ==
    /\ load.pc = "decompress"
    /\ load'.pc = "return"
    /\ load.nerr = 0
    /\ ~Reported(ev'.errs, "Decompression failed")
    /\ Get(load.read).kind = "entry"
    /\ ReadEntry = AlteredEntry

\* C12: a load that decodes an entry whose value does not match its stored
\* hash: with validateOnLoad it resolves to the default value, reports one
\* integrity-check-failed error and writes nothing (backend and memory shadow
\* as they were); without validateOnLoad it resolves to the altered value,
\* adopts the entry and reports nothing.
C12_IntegrityCheck ==
    [][ ReadsAltered =>
          IF options.validateOnLoad
          THEN /\ load'.ret = initialValue
               /\ ev'.errs = <<IntegrityError>>
               /\ ev'.io = << >>
               /\ storage' = storage
               /\ memoryCache' = memoryCache
          ELSE /\ load'.ret = AlteredEntry.value
               /\ ev'.errs = << >>
               /\ memoryCache' = Some(AlteredEntry)
               /\ storage' = storage ]_vars

C12_Witness ==
    /\ ev.op = "load:resolved"
    /\ ev.errs = <<IntegrityError>>
    /\ options.validateOnLoad
    /\ options.compression
    /\ options.encryptionKey # NoKey
    /\ load.ret = initialValue
    /\ storage[key] = Some(Encode(options, AlteredEntry))
    /\ memoryCache = None

C12_WitnessUnchecked ==
    /\ ev.op = "load:done"
    /\ ~options.validateOnLoad
    /\ load.nerr = 0
    /\ storage[key] = Some(Encode(options, AlteredEntry))
    /\ currentValue = AlteredEntry.value

C13_WitnessLoad ==
    /\ ev.op = "load:resolved"
    /\ load.outcome = "fresh"
    /\ load.nerr = 0
    /\ options.compression
    /\ options.encryptionKey # NoKey
    /\ Get(load.read).gz
    /\ Get(load.read).aes = Secret

\* the step in which the load of a new store applies the policy to an entry
\* that a store of the same configuration wrote, no stage failing, at a time
\* when the entry has not expired
ReadsLive ==
    /\ load.pc = "decompress"
    /\ load'.pc = "return"
    /\ load.nerr = 0
    /\ ~Reported(ev'.errs, "Decompression failed")
    /\ \E exp \in {Null} \cup (0..MaxTime + TTL) :
          /\ ReadEntry = EarlierEntry(exp)
          /\ load.read = Some(Encode(options, EarlierEntry(exp)))
    /\ (ReadEntry.expiry = Null \/ now < ReadEntry.expiry)

\* C14: a store constructed on a backend that holds an unexpired entry
\* written by a store of the same configuration: its load resolves to the
\* entry's value, adopts the entry as memory shadow, reports no error and
\* leaves the backend alone; when the load completes, that value becomes
\* the current value and every listener subscribed at that moment, and no
\* other, is invoked once.
C14_PersistsAcrossReload ==
    [][ /\ ReadsLive =>
             /\ load'.ret = ReadEntry.value
             /\ load'.outcome = "fresh"
             /\ memoryCache' = Some(ReadEntry)
             /\ ev'.errs = << >>
             /\ storage' = storage
        /\ (load.pc = "return" /\ load.outcome = "fresh" /\ load'.pc = "done") =>
             /\ load.ret = ReadEntry.value
             /\ currentValue' = ReadEntry.value
             /\ \A l \in Listeners :
                   ev'.notified[l] = IF l \in listeners THEN 1 ELSE 0 ]_vars

C14_Witness ==
    /\ ev.op = "load:done"
    /\ load.outcome = "fresh"
    /\ load.nerr = 0
    /\ ReadEntry.expiry = InitExpiry
    /\ options.compression
    /\ options.encryptionKey # NoKey
    /\ currentValue = StoredValue
    /\ memoryCache = Some(ReadEntry)
    /\ listeners = Listeners
    /\ ev.notified = [l \in Listeners |-> 1]
    /\ calls[1].pc = "idle"

\* C15: store A (another process) has written X under the key and this store
\* has been delivered the storage event for its backend and key, none of its
\* own operations being pending: the read of getSnapshot() that follows
\* returns X.  (The store starts nothing when the event arrives, so no
\* continuation is pending at that read.)
C15_CrossProcess ==
    [][ (/\ ev.op = "storage"
         /\ ev.ret = key
         /\ \E exp \in {Null, InitExpiry} :
               storage[key] = Some(Encode(options, ExternalEntry(exp)))
         /\ load.pc = "done"
         /\ InFlight = {}
         /\ ev'.op = "getSnapshot")
        => ev'.ret = ExternalValue ]_vars

Registered == storageEventHandler # None /\ cleanupEventHandler # None

\* C16: at the end of construction both handlers are registered on the
\* window; they stay registered until cleanup(), so that every storage event
\* delivered meanwhile reaches the own-key handler and the quota-sweep
\* handler; cleanup() deregisters them, and afterwards no event reaches them.
C16_RegisteredUntilCleanup ==
    /\ Registered
    /\ [][ /\ ev'.op # "cleanup" => handlers' = handlers
           /\ ev'.op = "cleanup" => ~Registered'
           /\ ev'.op \in {"storage", "storage:otherArea"} =>
                 IF Registered
                 THEN /\ Reported(ev'.io, "handleStorageEvent")
                      /\ Reported(ev'.io, "handleCleanupEvent")
                 ELSE ev'.io = << >> ]_vars

\* the removal of an item during the handling of a notification
SweptAway(k) == storage[k] # None /\ storage'[k] # storage[k]

\* C17: whatever the backend holds and whichever notification is handled,
\* the handlers only ever remove items, and each item removed (under the
\* store's key or any other) is an entry with a non-null expiry strictly
\* earlier than the time of the sweep; nothing is removed unless the
\* notification is for the store's backend and the aggregate size of the
\* items exceeds maxSize.
C17_SweepSparesLive ==
    [][ ev'.op \in {"handleCleanupEvent", "handleStorageEvent",
                    "handleStorageEvent:otherArea"} =>
          \A k \in Keys :
              /\ storage[k] = None => storage'[k] = None
              /\ SweptAway(k) =>
                    /\ storage'[k] = None
                    /\ Get(storage[k]).kind = "entry"
                    /\ Get(storage[k]).e.expiry # Null
                    /\ Get(storage[k]).e.expiry < now
                    /\ calculateStorageSize(storage) > maxSize
                    /\ ev'.op = "handleCleanupEvent"
                    /\ ev'.ret = "storage" ]_vars

C17_Witness ==
    /\ ev.op = "handleCleanupEvent"
    /\ ev.io = <<"removeItem">>
    /\ storage["other"] = None
    /\ storage[key] # None
    /\ Get(storage[key]).e.expiry = Null
    /\ load.pc = "done"

NumberOf(errs, what) == Cardinality({i \in 1..Len(errs) : errs[i] = what})

\* C18: in every notification round (the end of a successful setState, the
\* end of the load) all listeners subscribed at its start are invoked, also
\* when some of them raise; each exception raised is reported once through
\* the error callback; and the operation completes with its changes in
\* place: the write has stored its value, the load has set the current value.
C18_ThrowingListener ==
    [][ ev'.op \in {"setState:done", "load:done"} =>
          /\ \A l \in listeners : ev'.notified[l] = 1
          /\ NumberOf(ev'.errs, "Listener notification failed")
                = Cardinality(listeners \cap Throwing)
          /\ listeners' = listeners
          /\ ev'.op = "setState:done" =>
                /\ calls'[ev'.id].pc = "done"
                /\ currentValue' = calls[ev'.id].value
                /\ memoryCache' = Some(calls[ev'.id].data)
                /\ storage'[key] # None
          /\ ev'.op = "load:done" =>
                /\ load'.pc = "done"
                /\ currentValue' = load.ret ]_vars

C18_Witness ==
    /\ ev.op = "setState:done"
    /\ listeners = Listeners
    /\ Throwing # {}
    /\ ev.notified = [l \in Listeners |-> 1]
    /\ Reported(ev.errs, "Listener notification failed")
    /\ currentValue = calls[ev.id].value
    /\ load.pc = "done"

\* C19: a round invokes exactly the listeners that are subscribed, each
\* once: subscribe(l) makes l a subscriber (a second subscribe(l) changes
\* nothing), the function it returned removes l, cleanup() removes all, and
\* nothing else changes who is subscribed; a listener that is not subscribed
\* is invoked by no step at all.
C19_SubscribedOnly ==
    [][ /\ \A l \in Listeners :
              ev'.notified[l] =
                 IF l \in listeners /\ ev'.op \in {"setState:done", "load:done"}
                 THEN 1 ELSE 0
        /\ ev'.op = "subscribe" => listeners' = listeners \cup {ev'.ret}
        /\ ev'.op = "unsubscribe" => listeners' = listeners \ {ev'.ret}
        /\ ev'.op = "cleanup" => listeners' = {}
        /\ ev'.op \notin {"subscribe", "unsubscribe", "cleanup"} =>
              listeners' = listeners ]_vars

C19_Witness ==
    /\ ev.op = "setState:done"
    /\ listeners = {"l2"}
    /\ ev.notified = [l \in Listeners |-> IF l = "l2" THEN 1 ELSE 0]
    /\ storage[key] # None

\* C20: cleanup() leaves no window listener registered, an empty subscriber
\* set and an empty memory shadow, reports nothing and invokes nobody, and
\* leaves the backend, the current value and the pending operations as they
\* were; a cleanup() that follows a cleanup() changes nothing at all.
C20_Cleanup ==
    [][ ev'.op = "cleanup" =>
          /\ storageEventHandler' = None
          /\ cleanupEventHandler' = None
          /\ listeners' = {}
          /\ memoryCache' = None
          /\ ev'.errs = << >>
          /\ ev'.notified = NoNotify
          /\ UNCHANGED <<options, storage, currentValue, now, load, calls>>
          /\ ev.op = "cleanup" =>
                UNCHANGED <<handlers, listeners, memoryCache>> ]_vars

C20_Witness ==
    /\ ev.op = "cleanup"
    /\ listeners = {}
    /\ memoryCache = None
    /\ calls[1].pc = "done"
    /\ calls[1].ok
    /\ storage[key] # None
    /\ currentValue = calls[1].value

(***************************************************************************)
(* C21 - decryption fails closed: with an encryption secret configured,    *)
(* a load whose decryption failed (and was reported) resolves to the       *)
(* default value, and nothing read from the undecrypted payload becomes    *)
(* the memory shadow or the current value.                                 *)
(***************************************************************************)
C21_DecryptionFailsClosed ==
    (options.encryptionKey # NoKey /\ load.decryptFailed /\ LoadResolved) =>
        /\ load.nerr >= 1
        /\ load.ret = initialValue
        /\ memoryCache = None
        /\ (load.pc = "done" => currentValue = initialValue)

(***************************************************************************)
(* C22 - the updater form of the hook's setter: setState(f) applies f to   *)
(* the value getSnapshot() returns when the setter is invoked, not to the  *)
(* value of the last render, and that result is what the store's setState  *)
(* is given and, when the call succeeds, what it writes.                   *)
(***************************************************************************)
C22_UpdaterReadsSnapshot ==
    [][ \A id \in CallIds :
          (ev'.id = id /\ hook'.setter[id].action \in Updaters) =>
             LET f == hook'.setter[id].action IN
             /\ ev'.op \in {"setState:invoked", "setState:rejected"} =>
                   /\ hook'.setter[id].seen = getSnapshot
                   /\ calls'[id].value = Apply(f, getSnapshot)
             /\ ev'.op = "setState:done" =>
                   /\ getSnapshot' = Apply(f, hook.setter[id].seen)
                   /\ Get(memoryCache').value = Apply(f, hook.setter[id].seen)
                   /\ Decode(options, Get(storage'[key])) = memoryCache' ]_vars

\* an updater call that was made while the rendered state lagged behind the
\* snapshot has completed
C22_Witness ==
    \E id \in CallIds :
        /\ ev.op = "setState:done" /\ ev.id = id
        /\ hook.setter[id].action \in Updaters
        /\ hook.setter[id].rendered # hook.setter[id].seen
        /\ Apply(hook.setter[id].action, hook.setter[id].rendered)
              # Apply(hook.setter[id].action, hook.setter[id].seen)
        /\ getSnapshot = Apply(hook.setter[id].action, hook.setter[id].seen)

(***************************************************************************)
(* C23 - one store per backend and key: all the components that ask for    *)
(* the same backend and key hold the same store instance, and components   *)
(* that ask for one key on different backends hold different instances.    *)
(***************************************************************************)
C23_OneStorePerBackendAndKey ==
    \A c \in Consumers, d \in Consumers :
        (hook.storeRef[c] # None /\ hook.storeRef[d] # None) =>
            LET a == Get(hook.storeRef[c])
                b == Get(hook.storeRef[d])
            IN /\ (a.storage = b.storage /\ a.key = b.key) => a.id = b.id
               /\ (a.storage # b.storage /\ a.key = b.key) => a.id # b.id

(***************************************************************************)
(* C24 - getServerSnapshot() returns the configured default value in every *)
(* reachable state, whatever load, setState, notification or cleanup has   *)
(* completed.                                                              *)
(***************************************************************************)
C24_ServerSnapshot ==
    /\ getServerSnapshot = initialValue
    /\ ev.op = "getServerSnapshot" => ev.ret = initialValue

\* getServerSnapshot() called on a store whose current value is not the
\* default, after a setState and a cleanup
C24_Witness ==
    /\ ev.op = "getServerSnapshot"
    /\ ev.ret = initialValue
    /\ getSnapshot \notin {initialValue, StoredValue}
    /\ load.pc = "done"
    /\ \E id \in CallIds : calls[id].pc = "done" /\ calls[id].ok
    /\ memoryCache = None

(***************************************************************************)
(* C25 - handleStorageEvent: an event of the store's backend and key       *)
(* empties the memory shadow and calls every subscriber once; an event of  *)
(* another backend or another key leaves the memory shadow, the current    *)
(* value and the subscribers as they are and calls nobody.                 *)
(***************************************************************************)
C25_StorageEvent ==
    [][ /\ (ev'.op = "handleStorageEvent" /\ ev'.ret = key) =>
              /\ memoryCache' = None
              /\ ev'.notified = [l \in Listeners |-> IF l \in listeners THEN 1 ELSE 0]
              /\ UNCHANGED <<listeners, currentValue, storage>>
        /\ (\/ ev'.op = "handleStorageEvent:otherArea"
            \/ ev'.op = "handleStorageEvent" /\ ev'.ret # key) =>
              /\ ev'.notified = NoNotify
              /\ ev'.errs = << >>
              /\ UNCHANGED <<memoryCache, currentValue, listeners, storage>> ]_vars

\* the handler has run for the store's backend and key, on a store that had
\* a memory shadow and two subscribers
C25_Witness ==
    /\ ev.op = "handleStorageEvent" /\ ev.ret = key
    /\ load.outcome = "fresh" /\ load.pc = "done"
    /\ listeners = Listeners
    /\ \A l \in Listeners : ev.notified[l] = 1
    /\ memoryCache = None
    /\ getSnapshot = StoredValue

\* the handler has run for another backend and left the shadow in place
C25_WitnessOther ==
    /\ ev.op = "handleStorageEvent:otherArea" /\ ev.ret = key
    /\ listeners = Listeners
    /\ ev.notified = NoNotify
    /\ memoryCache # None

(***************************************************************************)
(* C26 - when a quota sweep removes the store's own key from the backend,  *)
(* the store empties its memory shadow, calls its subscribers, and its     *)
(* getSnapshot() returns the default value.                                *)
(***************************************************************************)
C26_SweptOwnKey ==
    [][ (ev'.op = "handleCleanupEvent" /\ storage[key] # None /\ storage'[key] = None) =>
            /\ memoryCache' = None
            /\ ev'.notified = [l \in Listeners |-> IF l \in listeners THEN 1 ELSE 0]
            /\ getSnapshot' = initialValue ]_vars

\* the backend holds under k an entry of this library (read with the
\* pipeline of the configuration it was written with) whose expiry is past
HoldsExpiredEntry(st, k, t) ==
    /\ st[k] # None
    /\ Decode(options, Get(st[k])) # None
    /\ Get(Decode(options, Get(st[k]))).expiry > 0
    /\ Get(Decode(options, Get(st[k]))).expiry < t

(***************************************************************************)
(* C27 - sweep completeness: when handleCleanupEvent runs while the        *)
(* backend holds more than maxSize, then after the sweep (no removeItem    *)
(* having failed) the backend holds no entry of this library whose expiry  *)
(* is in the past, whichever stages the entry was written with.            *)
(***************************************************************************)
C27_SweepComplete ==
    [][ ( /\ ev'.op = "handleCleanupEvent" /\ ev'.ret = "storage"
          /\ calculateStorageSize(storage) > maxSize
          /\ ~Reported(ev'.errs, "Failed to remove item") ) =>
            \A k \in Keys : ~HoldsExpiredEntry(storage', k, now) ]_vars

(***************************************************************************)
(* C28 - the sweep and the load agree on which entries are dead: the sweep *)
(* removes an entry only if a load of that entry at that time would treat  *)
(* it as expired; it never removes an entry that a load would still serve  *)
(* inside the stale-while-revalidate window.                               *)
(***************************************************************************)
C28_SweepAgreesWithLoad ==
    [][ \A k \in Keys :
          (ev'.op = "handleCleanupEvent" /\ storage[k] # None /\ storage'[k] = None) =>
              /\ Decode(options, Get(storage[k])) # None
              /\ Freshness(Get(Decode(options, Get(storage[k]))), now, options)
                    = "expired" ]_vars

(***************************************************************************)
(* C29 - writes take effect in invocation order: when setState(a) is       *)
(* invoked before setState(b) on a store with a codec stage configured and *)
(* both succeed, then however their suspended stages interleave, once both *)
(* have resolved the backend entry, the memory shadow and getSnapshot()    *)
(* hold b.                                                                 *)
(***************************************************************************)
C29_InvocationOrder ==
    \A i, j \in CallIds :
        ( /\ i < j
          /\ options.compression \/ options.encryptionKey # NoKey
          /\ calls[i].pc = "done" /\ calls[i].ok
          /\ calls[j].pc = "done" /\ calls[j].ok
          /\ \A k \in CallIds \ {i, j} : calls[k].pc = "idle"
          /\ ev.op = "setState:done" /\ ev.id \in {i, j} ) =>
            /\ getSnapshot = calls[j].value
            /\ memoryCache # None /\ Get(memoryCache).value = calls[j].value
            /\ storage[key] # None
            /\ Decode(options, Get(storage[key])) # None
            /\ Get(Decode(options, Get(storage[key]))).value = calls[j].value

\* fn(...f2(f1(v))...) for the updaters of the first n calls of the setter
RECURSIVE Composed(_, _)
Composed(n, v) ==
    IF n = 0 THEN v ELSE Apply(hook.setter[n].action, Composed(n - 1, v))

\* the first n calls of the setter were made with updaters, one right after
\* the other, and all have resolved with success; no other call was made
InSuccession(n) ==
    /\ \A id \in 1..n :
          /\ hook.setter[id].action \in Updaters
          /\ id > 1 => hook.setter[id].succ
          /\ calls[id].pc = "done" /\ calls[id].ok
    /\ \A id \in CallIds : id > n => calls[id].pc = "idle"
    /\ ev.op = "setState:done"

(***************************************************************************)
(* C30 - no lost update with the updater form: when the hook's setter is   *)
(* invoked k times in succession with updaters f1..fk, without awaiting in *)
(* between, then once all k calls have resolved getSnapshot() is           *)
(* fk(...f2(f1(v0))...), v0 being the snapshot before the first call.      *)
(***************************************************************************)
C30_NoLostUpdate ==
    \A k \in CallIds :
        InSuccession(k) => getSnapshot = Composed(k, hook.setter[1].seen)

(***************************************************************************)
(* C31 - the value getSnapshot() returns changes only when the initial     *)
(* load completes or a setState succeeds, and in that same step every      *)
(* current subscriber is called once: no operation changes the snapshot    *)
(* without notifying.                                                      *)
(***************************************************************************)
C31_ChangeNotifies ==
    [][ getSnapshot' # getSnapshot =>
          /\ ev'.op \in {"load:done", "setState:done"}
          /\ ev'.notified = [l \in Listeners |-> IF l \in listeners THEN 1 ELSE 0]
          /\ listeners' = listeners ]_vars

\* the load has changed the snapshot of a store with two subscribers, one
\* of which throws
C31_Witness ==
    /\ ev.op = "load:done"
    /\ getSnapshot = StoredValue
    /\ listeners = Listeners
    /\ \A l \in Listeners : ev.notified[l] = 1

\* a setState has changed the snapshot of a store with two subscribers
C31_WitnessSetState ==
    /\ ev.op = "setState:done"
    /\ getSnapshot = calls[ev.id].value
    /\ listeners = Listeners
    /\ \A l \in Listeners : ev.notified[l] = 1

\* the call id is about to write a payload that compressData, enabled, has
\* handed on uncompressed
CompressionFailed(id) ==
    /\ options.compression
    /\ calls[id].pc = "encrypt"
    /\ ~calls[id].payload.gz

(***************************************************************************)
(* C32 - when the compression stage fails during setState(v) on a store    *)
(* with compression enabled, the failure is reported, the write completes  *)
(* with the uncompressed payload, and a later load by a store of the same  *)
(* configuration, whose decompression of that payload fails and falls      *)
(* back, resolves to v.                                                    *)
(***************************************************************************)
C32_CompressionFallback ==
    [][ \A id \in CallIds :
          /\ (ev'.op = "setState:compressed" /\ ev'.id = id /\ options.compression
                /\ ~calls'[id].payload.gz) =>
                 /\ ev'.errs = <<"Compression failed">>
                 /\ calls'[id].payload = calls[id].payload
          /\ (ev'.op = "setState:done" /\ ev'.id = id /\ CompressionFailed(id)) =>
                 /\ calls[id].nerr = 1
                 /\ storage'[key] # None
                 /\ ~Get(storage'[key]).gz
                 /\ getSnapshot' = calls[id].value
                 /\ \A ok \in BOOLEAN :
                       LET r == getAsyncSnapshot(options, Get(storage'[key]), now',
                                                 TRUE, ok)
                       IN /\ r.ret = calls[id].value
                          /\ Reported(r.errs, "Decompression failed") ]_vars

\* a write whose compression failed has completed, on a store with both
\* stages, the encryption having succeeded
C32_Witness ==
    /\ ev.op = "setState:done"
    /\ options.compression
    /\ options.encryptionKey # NoKey
    /\ storage[key] # None
    /\ ~Get(storage[key]).gz
    /\ Get(storage[key]).aes = options.encryptionKey
    /\ getSnapshot = calls[ev.id].value
    /\ getAsyncSnapshot(options, Get(storage[key]), now, TRUE, TRUE).ret = getSnapshot
    /\ getAsyncSnapshot(options, Get(storage[key]), now, TRUE, TRUE).errs
          = <<"Decompression failed">>

(***************************************************************************)
(* C33 - with an encryption secret configured, the backend never holds     *)
(* the plain serialized (or merely compressed) entry under the store's     *)
(* key: every payload setState writes is an encryption envelope, also      *)
(* after a failure of the encryption stage.                                *)
(***************************************************************************)
C33_NeverPlaintext ==
    /\ (options.encryptionKey # NoKey /\ storage[key] # None) =>
            Get(storage[key]).aes # NoKey
    /\ (options.encryptionKey # NoKey /\ ev.op = "setState:done") =>
            /\ storage[key] # None
            /\ Get(storage[key]).aes = options.encryptionKey

(***************************************************************************)
(* C34 - a load that ends in a reported failure (its decryption failed,    *)
(* or it was caught: deserialization, integrity) leaves the backend entry  *)
(* of the key as it was; the load removes the entry only when it has       *)
(* decoded the entry and its expiry lies beyond the stale window.  (A      *)
(* decompression that falls back to the payload as it is and yields the    *)
(* entry counts as decoding it.)                                           *)
(***************************************************************************)
C34_FailedLoadKeepsEntry ==
    [][ (load.pc = "decompress" /\ load'.pc = "return") =>
          /\ (load'.outcome = "error" \/ load.decryptFailed) => storage' = storage
          /\ storage' # storage =>
                /\ ~load.decryptFailed
                /\ Get(load.read).kind = "entry"
                /\ Get(load.read).e.expiry >= 0
                /\ Freshness(Get(load.read).e, now, options) = "expired" ]_vars

(***************************************************************************)
(* C35 - an entry that setState builds carries a hash exactly when         *)
(* validateOnLoad is enabled: without validateOnLoad the persisted entry   *)
(* and the memory shadow have no hash.                                     *)
(***************************************************************************)
C35_HashOnlyWhenValidating ==
    ev.op = "setState:done" =>
        /\ (Get(memoryCache).hash # "") <=> options.validateOnLoad
        /\ Decode(options, Get(storage[key])) # None
        /\ (Get(Decode(options, Get(storage[key]))).hash # "") <=> options.validateOnLoad

\* expiry is null exactly when no ttl is configured, and timestamp + ttl
\* otherwise
ExpiryOfWrite(e) ==
    IF options.ttl = 0 THEN e.expiry = Null
    ELSE e.expiry = e.timestamp + options.ttl

(***************************************************************************)
(* C36 - every entry this store has written (the backend entry and the     *)
(* memory shadow of a successful setState) has expiry null exactly when no *)
(* ttl is configured and expiry = timestamp + ttl otherwise, for the       *)
(* timestamp of that write; and only a new successful setState changes     *)
(* the expiry or timestamp of the memory shadow or of the stored entry.    *)
(***************************************************************************)
C36_ExpiryIsTimestampPlusTtl ==
    /\ [](ev.op = "setState:done" =>
            /\ ExpiryOfWrite(Get(memoryCache))
            /\ Decode(options, Get(storage[key])) # None
            /\ ExpiryOfWrite(Get(Decode(options, Get(storage[key])))))
    /\ [][ ev'.op # "setState:done" =>
            /\ (memoryCache # None /\ memoryCache' # None) =>
                  /\ Get(memoryCache').expiry = Get(memoryCache).expiry
                  /\ Get(memoryCache').timestamp = Get(memoryCache).timestamp
            /\ (storage[key] # None /\ storage'[key] # None) =>
                  storage'[key] = storage[key] ]_vars

\* the load has read a payload that a store of this configuration wrote,
\* no stage having failed at the time.  Only one thing can then go wrong in
\* the load: decryption, or else decompression (a failed decryption hands
\* on text on which decompressData fails before it inflates anything).
ReadsOwnPayload ==
    /\ load.read # None
    /\ \E exp \in {Null} \cup (0..MaxTime + TTL) :
          load.read = Some(Encode(options, EarlierEntry(exp)))

(***************************************************************************)
(* C37 - each fault is reported exactly once: a load in which a single     *)
(* thing fails (the backend access, or one stage, several stages being     *)
(* enabled and the fallback output of the failed stage being fed to the    *)
(* following ones) calls the error callback exactly one time.              *)
(***************************************************************************)
C37_ReportedOnce ==
    /\ (LoadResolved /\ load.getItemFailed) => load.nerr = 1
    /\ (LoadResolved /\ ReadsOwnPayload) =>
          /\ load.nerr <= 1
          /\ load.decryptFailed => load.nerr = 1

====
